---- MODULE Spec2Model ----
(***************************************************************************)
(* Group seat booking of the Movie Ticket Booking API                      *)
(* (src/routers/user.py, src/model/model.py, src/schemas/schemas.py).      *)
(*                                                                         *)
(* The database tables are sets of records.  Every awaited database        *)
(* statement of book_group is one step of the calling request; statements  *)
(* of different requests interleave freely.  The database runs at READ     *)
(* COMMITTED: a statement sees everything committed before it starts, the  *)
(* writes of an open transaction become visible together at its commit,    *)
(* and SELECT ... FOR UPDATE waits until no other open transaction holds   *)
(* a lock on any record it selects.  `async with db.begin()` is taken to   *)
(* open the transaction that the block's statements run in.                *)
(***************************************************************************)
EXTENDS Integers, Sequences, FiniteSets, TLC

\* ------------------------------------------------------------------ bounds

\* Number of book_group calls issued against the service.
MaxRequests == 3

\* Seats per row of the halls the screenings were created from.
RowSeats == 6

\* suggest_other_shows(..., time_window_minutes = 180)
TimeWindowMinutes == 180

Requests == 1 .. MaxRequests

\* Sizes of the catalog built from an empty database, and the number of
\* book_group calls issued against it.
MaxMovies == 1
MaxTheaters == 1
MaxHalls == 2
MaxShows == 2
MaxApiRequests == 2

\* conint(ge=6) on HallCreateRow.seat_count
MinSeatCount == 6

\* payload.show_id values the callers send; 4 names no Show.
RequestedShowIds == {1, 2, 3, 4}

\* payload.seats_requested values the callers send (BookingRequest puts no
\* constraint on the integer).
RequestedSizes == {-1, 0, 3, 4}

\* ------------------------------------------------------------------ tables

\* shows(id, start_time): start_time in minutes.  Show 2 starts exactly one
\* time window after show 3 and one before show 1.
\* movie_id and hall_id: show 1 plays in hall 1, shows 2 and 3 in hall 2.
InitialShows ==
    { [id |-> 1, movie_id |-> 1, hall_id |-> 1, start_time |-> 2 * TimeWindowMinutes],
      [id |-> 2, movie_id |-> 1, hall_id |-> 2, start_time |-> TimeWindowMinutes],
      [id |-> 3, movie_id |-> 1, hall_id |-> 2, start_time |-> 0] }

\* Rows of the hall each show was created in.
HallRows(show_id) == IF show_id = 1 THEN {1, 2} ELSE {1}

\* ShowSeat(show_id, row_index, seat_number, status, booking_id); booking_id 0
\* is NULL.
ShowSeat(show_id, row_index, seat_number, status, booking_id) ==
    [show_id |-> show_id, row_index |-> row_index, seat_number |-> seat_number,
     status |-> status, booking_id |-> booking_id]

\* The show_seats table right after create_show copied the hall's seats.
InitialShowSeats ==
    { ShowSeat(s.id, r, n, "available", 0) :
        <<s, r, n>> \in { t \in InitialShows \X (1 .. 2) \X (1 .. RowSeats) :
                            t[2] \in HallRows(t[1].id) } }

\* Booking(id, show_id); `request` records which call inserted it.
Booking(id, show_id, request) == [id |-> id, show_id |-> show_id, request |-> request]

\* Seat(hall_id, row_index, seat_number): the layout of a hall (is_aisle is
\* never read when a show is created or booked and is left out).
Seat(hall_id, row_index, seat_number) ==
    [hall_id |-> hall_id, row_index |-> row_index, seat_number |-> seat_number]

\* The catalog the three shows were created from: one movie, one theater,
\* hall 1 with rows 1 and 2, hall 2 with row 1.
InitialMovies == { [id |-> 1] }
InitialTheaters == { [id |-> 1] }
InitialHalls == { [id |-> 1, theater_id |-> 1], [id |-> 2, theater_id |-> 1] }
InitialSeats ==
    { Seat(1, r, n) : <<r, n>> \in (1 .. 2) \X (1 .. RowSeats) }
      \cup { Seat(2, 1, n) : n \in 1 .. RowSeats }

\* The id sequences behind movies.id, theaters.id, halls.id and shows.id.
InitialNextId == [movie |-> 2, theater |-> 2, hall |-> 3, show |-> 4]

\* What a read-only handler returned last.
NothingRead == [handler |-> "none", status_code |-> 0, body |-> {}]

VARIABLES
    movies,           \* table movies
    theaters,         \* table theaters
    halls,            \* table halls
    hall_seats,       \* table seats (the layout of every hall)
    next_id,          \* next value of each catalog id sequence
    last_read,        \* what the last read-only request returned
    shows,            \* table shows
    show_seats,       \* table show_seats (committed state)
    bookings,         \* table bookings (committed state)
    next_booking_id,  \* sequence behind bookings.id
    locked,           \* request -> keys of the show_seats records its transaction locks
    pc,               \* request -> position in book_group
    payload,          \* request -> BookingRequest
    contiguous,       \* request -> result of find_contiguous_in_show
    candidates,       \* request -> shows still to scan in suggest_other_shows
    suggestions,      \* request -> suggestions built so far
    response          \* request -> what the call returned or raised

catalog == <<movies, theaters, halls, hall_seats, next_id>>

vars == <<catalog, last_read, shows, show_seats, bookings, next_booking_id, locked, pc, payload,
          contiguous, candidates, suggestions, response>>

\* ------------------------------------------------------------------ finder

\* Optional[List[Tuple[int, int]]]
None == [some |-> FALSE, seats |-> <<>>]
Some(block) == [some |-> TRUE, seats |-> block]

\* ORDER BY row_index, seat_number
KeyLE(x, y) ==
    \/ x.row_index < y.row_index
    \/ x.row_index = y.row_index /\ x.seat_number <= y.seat_number

RECURSIVE OrderBy(_)
OrderBy(S) ==
    IF S = {} THEN <<>>
    ELSE LET m == CHOOSE x \in S : \A y \in S : KeyLE(x, y)
         IN  <<m>> \o OrderBy(S \ {m})

\* select(ShowSeat).where(show_id == ...).order_by(row_index, seat_number)
SelectShowSeats(table, show_id) == OrderBy({ s \in table : s.show_id = show_id })

\* rows[row_index].append(seat_number) on a defaultdict(list): a dict keeps its
\* keys in insertion order, so rows is a sequence of <<row_index, seat_list>>.
RowsAppend(rows, row_index, seat_number) ==
    IF \E i \in DOMAIN rows : rows[i][1] = row_index
    THEN [ i \in DOMAIN rows |->
             IF rows[i][1] = row_index
             THEN <<row_index, Append(rows[i][2], seat_number)>>
             ELSE rows[i] ]
    ELSE Append(rows, <<row_index, <<seat_number>>>>)

RECURSIVE GroupAvailable(_, _)
GroupAvailable(all_seats, rows) ==
    IF all_seats = <<>> THEN rows
    ELSE LET s == Head(all_seats)
         IN  GroupAvailable(Tail(all_seats),
                            IF s.status = "available"
                            THEN RowsAppend(rows, s.row_index, s.seat_number)
                            ELSE rows)

\* list.sort() on integers
RECURSIVE SortInts(_)
SortInts(list) ==
    IF list = <<>> THEN <<>>
    ELSE LET i == CHOOSE j \in DOMAIN list : \A l \in DOMAIN list : list[j] <= list[l]
         IN  <<list[i]>> \o SortInts(SubSeq(list, 1, i - 1) \o SubSeq(list, i + 1, Len(list)))

\* Python's list[start:stop] (0-based, a negative index counts from the end).
SliceIndex(n, x) == IF x < 0 THEN (IF x + n < 0 THEN 0 ELSE x + n)
                    ELSE (IF x > n THEN n ELSE x)

PySlice(list, start, stop) ==
    LET a == SliceIndex(Len(list), start)
        b == SliceIndex(Len(list), stop)
    IN  IF a >= b THEN <<>> ELSE SubSeq(list, a + 1, b)

\* As StrictlyConsecutive, but accepting any ascending window.
AscendingWindow(window) ==
    \A j \in 1 .. Len(window) - 1 : window[j] < window[j + 1]

\* all(window[j] + 1 == window[j+1] for j in range(len(window) - 1))
StrictlyConsecutive(window) ==
    \A j \in 1 .. Len(window) - 1 : window[j] + 1 = window[j + 1]

\* for i in range(len(seat_list) - group_size + 1): ...
RECURSIVE ScanWindows(_, _, _, _)
ScanWindows(row_idx, seat_list, group_size, i) ==
    IF i >= Len(seat_list) - group_size + 1 THEN None
    ELSE LET window == PySlice(seat_list, i, i + group_size)
         IN  IF StrictlyConsecutive(window)
             THEN Some([ j \in DOMAIN window |-> <<row_idx, window[j]>> ])
             ELSE ScanWindows(row_idx, seat_list, group_size, i + 1)

\* for row_idx, seat_list in rows.items(): ...
RECURSIVE ScanRows(_, _)
ScanRows(rows, group_size) ==
    IF rows = <<>> THEN None
    ELSE LET found == ScanWindows(Head(rows)[1], SortInts(Head(rows)[2]), group_size, 0)
         IN  IF found.some THEN found ELSE ScanRows(Tail(rows), group_size)

find_contiguous_in_show(table, show_id, group_size) ==
    LET all_seats == SelectShowSeats(table, show_id)
    IN  IF all_seats = <<>> THEN None
        ELSE ScanRows(GroupAvailable(all_seats, <<>>), group_size)

\* ------------------------------------------------------------- suggestions

\* start_time.isoformat(): the text form of a start time.
isoformat(start_time) == <<"iso", start_time>>

\* As InWindow, but with both ends excluded.
InOpenWindow(target_show, s, time_window_minutes) ==
    /\ target_show.start_time - time_window_minutes < s.start_time
    /\ s.start_time < target_show.start_time + time_window_minutes

\* Show.start_time.between(start, end): both ends included.
InWindow(target_show, s, time_window_minutes) ==
    /\ target_show.start_time - time_window_minutes <= s.start_time
    /\ s.start_time <= target_show.start_time + time_window_minutes

\* .order_by(Show.start_time): every order of the selected shows that is
\* ascending in start_time (shows with equal start times come in any order).
OrdersByStartTime(S) ==
    { seq \in [1 .. Cardinality(S) -> S] :
        /\ \A i, j \in DOMAIN seq : i # j => seq[i] # seq[j]
        /\ \A i, j \in DOMAIN seq : i < j => seq[i].start_time <= seq[j].start_time }

\* One pass of the loop of suggest_other_shows over candidate s.  A list is
\* truthy when it is not empty.
SuggestionsAfter(sugg, table, s, group_size) ==
    LET found == find_contiguous_in_show(table, s.id, group_size)
    IN  IF found.some /\ found.seats # <<>>
        THEN Append(sugg, [show_id |-> s.id, start_time |-> isoformat(s.start_time),
                           seats |-> found.seats])
        ELSE sugg

\* ------------------------------------------------------------------ replies

NoResponse ==
    [status_code |-> 0, message |-> "", has_suggestions |-> FALSE,
     suggestions |-> <<>>, booking_id |-> 0, seats |-> <<>>]

\* HTTPException(404, "show not found")
ShowNotFound == [NoResponse EXCEPT !.status_code = 404, !.message = "show not found"]

\* HTTPException(409, detail = {"message": ..., "suggestions": suggestions})
NoContiguousSeats(sugg) ==
    [NoResponse EXCEPT !.status_code = 409,
                       !.message = "cannot find contiguous seats in requested show",
                       !.has_suggestions = TRUE, !.suggestions = sugg]

\* HTTPException(409, "some seats became unavailable while booking; ...")
SeatsBecameUnavailable ==
    [NoResponse EXCEPT !.status_code = 409,
                       !.message = "some seats became unavailable while booking"]

\* BookingResponse(booking_id = booking.id, seats = contiguous)
BookingResponse(booking_id, seats) ==
    [NoResponse EXCEPT !.status_code = 200, !.booking_id = booking_id, !.seats = seats]

\* --------------------------------------------------------------- book_group

Init ==
    /\ movies = InitialMovies
    /\ theaters = InitialTheaters
    /\ halls = InitialHalls
    /\ hall_seats = InitialSeats
    /\ next_id = InitialNextId
    /\ last_read = NothingRead
    /\ shows = InitialShows
    /\ show_seats = InitialShowSeats
    /\ bookings = {}
    /\ next_booking_id = 1
    /\ locked = [p \in Requests |-> {}]
    /\ pc = [p \in Requests |-> "idle"]
    /\ payload = [p \in Requests |-> [show_id |-> 0, seats_requested |-> 0]]
    /\ contiguous = [p \in Requests |-> None]
    /\ candidates = [p \in Requests |-> <<>>]
    /\ suggestions = [p \in Requests |-> <<>>]
    /\ response = [p \in Requests |-> NoResponse]

\* The Show row that db.get(Show, payload.show_id) loaded.
ShowOf(p) == CHOOSE s \in shows : s.id = payload[p].show_id

\* POST /book arrives; db.get(Show, payload.show_id); 404 when there is none.
BookGroup(p, show_id, seats_requested) ==
    /\ pc[p] = "idle"
    /\ payload' = [payload EXCEPT ![p] = [show_id |-> show_id,
                                          seats_requested |-> seats_requested]]
    /\ IF \E s \in shows : s.id = show_id
       THEN /\ pc' = [pc EXCEPT ![p] = "Searching"]
            /\ UNCHANGED response
       ELSE /\ pc' = [pc EXCEPT ![p] = "NotFound"]
            /\ response' = [response EXCEPT ![p] = ShowNotFound]
    /\ UNCHANGED <<catalog, last_read, shows, show_seats, bookings, next_booking_id, locked,
                   contiguous, candidates, suggestions>>

\* As Search, but with the finder's query locking the rows of the block it
\* returns.
SearchForUpdate(p) ==
    /\ pc[p] = "Searching"
    /\ LET found == find_contiguous_in_show(show_seats, payload[p].show_id,
                                            payload[p].seats_requested)
       IN  /\ contiguous' = [contiguous EXCEPT ![p] = found]
           /\ pc' = [pc EXCEPT ![p] = IF found.some THEN "CandidateFound"
                                      ELSE "NoCandidate"]
           /\ locked' = [locked EXCEPT ![p] =
                           { <<payload[p].show_id, found.seats[i][1], found.seats[i][2]>> :
                               i \in DOMAIN found.seats }]
    /\ UNCHANGED <<catalog, last_read, shows, show_seats, bookings, next_booking_id, payload,
                   candidates, suggestions, response>>

\* contiguous = await find_contiguous_in_show(db, show_id, seats_requested)
Search(p) ==
    /\ pc[p] = "Searching"
    /\ LET found == find_contiguous_in_show(show_seats, payload[p].show_id,
                                            payload[p].seats_requested)
       IN  /\ contiguous' = [contiguous EXCEPT ![p] = found]
           /\ pc' = [pc EXCEPT ![p] = IF found.some THEN "CandidateFound"
                                      ELSE "NoCandidate"]
    /\ UNCHANGED <<catalog, last_read, shows, show_seats, bookings, next_booking_id, locked, payload,
                   candidates, suggestions, response>>

\* suggest_other_shows: the query for the shows in the time window.  With no
\* candidate the loop body never runs and book_group raises at once.
QueryCandidates(p) ==
    /\ pc[p] = "NoCandidate"
    /\ \E order \in OrdersByStartTime({ s \in shows :
                                         InWindow(ShowOf(p), s, TimeWindowMinutes) }) :
         IF order = <<>>
         THEN /\ pc' = [pc EXCEPT ![p] = "FailedNoBlock"]
              /\ response' = [response EXCEPT ![p] = NoContiguousSeats(<<>>)]
              /\ UNCHANGED candidates
         ELSE /\ pc' = [pc EXCEPT ![p] = "Suggesting"]
              /\ candidates' = [candidates EXCEPT ![p] = order]
              /\ UNCHANGED response
    /\ UNCHANGED <<catalog, last_read, shows, show_seats, bookings, next_booking_id, locked, payload,
                   contiguous, suggestions>>

\* suggest_other_shows: one pass of the loop (one find_contiguous_in_show
\* query); after the last pass book_group raises the 409 with the suggestions.
ScanCandidate(p) ==
    /\ pc[p] = "Suggesting"
    /\ LET sugg == SuggestionsAfter(suggestions[p], show_seats, Head(candidates[p]),
                                    payload[p].seats_requested)
       IN  /\ suggestions' = [suggestions EXCEPT ![p] = sugg]
           /\ candidates' = [candidates EXCEPT ![p] = Tail(candidates[p])]
           /\ IF Tail(candidates[p]) = <<>>
              THEN /\ pc' = [pc EXCEPT ![p] = "FailedNoBlock"]
                   /\ response' = [response EXCEPT ![p] = NoContiguousSeats(sugg)]
              ELSE UNCHANGED <<pc, response>>
    /\ UNCHANGED <<catalog, last_read, shows, show_seats, bookings, next_booking_id, locked, payload,
                   contiguous>>

\* rows_to_lock = sorted(set(r for r, _ in contiguous))
RowsToLock(block) == { block[i][1] : i \in DOMAIN block }

SeatKey(s) == <<s.show_id, s.row_index, s.seat_number>>

\* As LockSet, but selecting every record of the show, whatever its row.
LockWholeShow(table, show_id, rows_to_lock) ==
    { SeatKey(s) : s \in { x \in table : x.show_id = show_id } }

\* As LockSet, but selecting no record (the query locks nothing).
LockNothing(table, show_id, rows_to_lock) == {}

\* The records q_lock selects: every seat of the show in the rows to lock.
LockSet(table, show_id, rows_to_lock) ==
    { SeatKey(s) : s \in { x \in table : x.show_id = show_id
                                          /\ x.row_index \in rows_to_lock } }

\* As Lock, but returning at once whatever other transactions hold.
LockWithoutWaiting(p) ==
    /\ pc[p] = "CandidateFound"
    /\ locked' = [locked EXCEPT ![p] = LockSet(show_seats, payload[p].show_id,
                                               RowsToLock(contiguous[p].seats))]
    /\ pc' = [pc EXCEPT ![p] = "Validating"]
    /\ UNCHANGED <<catalog, last_read, shows, show_seats, bookings, next_booking_id, payload,
                   contiguous, candidates, suggestions, response>>

\* async with db.begin(): ... await db.execute(q_lock): returns once no other
\* open transaction holds a lock on a selected record.
Lock(p) ==
    /\ pc[p] = "CandidateFound"
    /\ LET want == LockSet(show_seats, payload[p].show_id,
                           RowsToLock(contiguous[p].seats))
       IN  /\ \A q \in Requests \ {p} : locked[q] \cap want = {}
           /\ locked' = [locked EXCEPT ![p] = want]
    /\ pc' = [pc EXCEPT ![p] = "Validating"]
    /\ UNCHANGED <<catalog, last_read, shows, show_seats, bookings, next_booking_id, payload,
                   contiguous, candidates, suggestions, response>>

\* As InBlock, but matching on the seat number alone.
InBlockBySeatNumber(s, block) == \E i \in DOMAIN block : block[i][2] = s.seat_number

\* sa.tuple_(row_index, seat_number).in_(contiguous)
InBlock(s, block) == \E i \in DOMAIN block : block[i] = <<s.row_index, s.seat_number>>

\* As SeatsNow, but answering with the records as the unlocked search saw
\* them: the finder returns available seats only.
SeatsAsSearched(table, show_id, block) ==
    { ShowSeat(show_id, block[i][1], block[i][2], "available", 0) : i \in DOMAIN block }

\* q_check: the seat records of the show that are in the block.
SeatsNow(table, show_id, block) ==
    { s \in table : s.show_id = show_id /\ InBlock(s, block) }

\* As SeatsUnavailable, but without the test on the status of the seats.
SeatsMissing(seats_now, block) == Cardinality(seats_now) # Len(block)

\* any(s.status != "available" for s in seats_now) or len(seats_now) != len(contiguous)
SeatsUnavailable(seats_now, block) ==
    \/ \E s \in seats_now : s.status # "available"
    \/ Cardinality(seats_now) # Len(block)

\* As MarkBooked, but setting the status only.
MarkStatusOnly(table, show_id, block, booking_id) ==
    { IF s.show_id = show_id /\ InBlock(s, block)
      THEN [s EXCEPT !.status = "booked"]
      ELSE s : s \in table }

\* As MarkBooked, but updating every seat of the block's rows.
MarkRowsBooked(table, show_id, block, booking_id) ==
    { IF s.show_id = show_id /\ s.row_index \in { block[i][1] : i \in DOMAIN block }
      THEN [s EXCEPT !.status = "booked", !.booking_id = booking_id]
      ELSE s : s \in table }

\* update(ShowSeat).where(...).values(status = "booked", booking_id = booking.id)
MarkBooked(table, show_id, block, booking_id) ==
    { IF s.show_id = show_id /\ InBlock(s, block)
      THEN [s EXCEPT !.status = "booked", !.booking_id = booking_id]
      ELSE s : s \in table }

\* As Validate, but with the Booking inserted and committed before the test
\* on seats_now.
ValidateAfterInsert(p) ==
    /\ pc[p] = "Validating"
    /\ bookings' = bookings \cup {Booking(next_booking_id, payload[p].show_id, p)}
    /\ next_booking_id' = next_booking_id + 1
    /\ IF SeatsUnavailable(SeatsNow(show_seats, payload[p].show_id, contiguous[p].seats),
                           contiguous[p].seats)
       THEN /\ pc' = [pc EXCEPT ![p] = "Conflict"]
            /\ response' = [response EXCEPT ![p] = SeatsBecameUnavailable]
            /\ locked' = [locked EXCEPT ![p] = {}]
       ELSE /\ pc' = [pc EXCEPT ![p] = "Committing"]
            /\ UNCHANGED <<response, locked>>
    /\ UNCHANGED <<catalog, last_read, shows, show_seats, payload, contiguous, candidates, suggestions>>

\* As Validate, but with the locks still held after the 409.
ValidateKeepingLocks(p) ==
    /\ pc[p] = "Validating"
    /\ IF SeatsUnavailable(SeatsNow(show_seats, payload[p].show_id, contiguous[p].seats),
                           contiguous[p].seats)
       THEN /\ pc' = [pc EXCEPT ![p] = "Conflict"]
            /\ response' = [response EXCEPT ![p] = SeatsBecameUnavailable]
       ELSE /\ pc' = [pc EXCEPT ![p] = "Committing"]
            /\ UNCHANGED response
    /\ UNCHANGED <<catalog, last_read, shows, show_seats, bookings, next_booking_id, locked,
                   payload, contiguous, candidates, suggestions>>

\* q_check and the test on seats_now.  The raise leaves `async with db.begin()`
\* by an exception: the transaction rolls back and its locks are released.
Validate(p) ==
    /\ pc[p] = "Validating"
    /\ IF SeatsUnavailable(SeatsNow(show_seats, payload[p].show_id, contiguous[p].seats),
                           contiguous[p].seats)
       THEN /\ pc' = [pc EXCEPT ![p] = "Conflict"]
            /\ response' = [response EXCEPT ![p] = SeatsBecameUnavailable]
            /\ locked' = [locked EXCEPT ![p] = {}]
       ELSE /\ pc' = [pc EXCEPT ![p] = "Committing"]
            /\ UNCHANGED <<response, locked>>
    /\ UNCHANGED <<catalog, last_read, shows, show_seats, bookings, next_booking_id, payload,
                   contiguous, candidates, suggestions>>

\* As Commit, but with the Booking visible to others one step before the
\* seat updates are.
CommitInTwoSteps(p) ==
    /\ pc[p] = "Committing"
    /\ IF ~ \E b \in bookings : b.request = p
       THEN /\ bookings' = bookings \cup {Booking(next_booking_id, payload[p].show_id, p)}
            /\ next_booking_id' = next_booking_id + 1
            /\ UNCHANGED <<show_seats, locked, pc, response>>
       ELSE LET booking == CHOOSE b \in bookings : b.request = p
            IN  /\ show_seats' = MarkBooked(show_seats, payload[p].show_id,
                                            contiguous[p].seats, booking.id)
                /\ locked' = [locked EXCEPT ![p] = {}]
                /\ pc' = [pc EXCEPT ![p] = "Committed"]
                /\ response' = [response EXCEPT ![p] = BookingResponse(booking.id,
                                                                       contiguous[p].seats)]
                /\ UNCHANGED <<bookings, next_booking_id>>
    /\ UNCHANGED <<catalog, last_read, shows, payload, contiguous, candidates, suggestions>>

\* db.add(booking); flush; q_upd; leaving `async with db.begin()` commits: the
\* Booking and the seat updates become visible together, the locks are released.
Commit(p) ==
    /\ pc[p] = "Committing"
    /\ bookings' = bookings \cup {Booking(next_booking_id, payload[p].show_id, p)}
    /\ next_booking_id' = next_booking_id + 1
    /\ show_seats' = MarkBooked(show_seats, payload[p].show_id, contiguous[p].seats,
                                next_booking_id)
    /\ locked' = [locked EXCEPT ![p] = {}]
    /\ pc' = [pc EXCEPT ![p] = "Committed"]
    /\ response' = [response EXCEPT ![p] = BookingResponse(next_booking_id,
                                                           contiguous[p].seats)]
    /\ UNCHANGED <<catalog, last_read, shows, payload, contiguous, candidates, suggestions>>

\* GET /bookings/{booking_id}: the seats whose booking_id is the booking's.
get_booking(booking_table, seat_table, booking_id) ==
    IF \E b \in booking_table : b.id = booking_id
    THEN [status_code |-> 200,
          seats |-> { <<s.row_index, s.seat_number>> :
                        s \in { x \in seat_table : x.booking_id = booking_id } }]
    ELSE [status_code |-> 404, seats |-> {}]

\* ------------------------------------------------------------ the catalog

\* What the catalog and read handlers leave alone.
calls == <<locked, pc, payload, contiguous, candidates, suggestions, response>>

\* POST /movies
create_movie ==
    /\ next_id.movie <= MaxMovies
    /\ movies' = movies \cup { [id |-> next_id.movie] }
    /\ next_id' = [next_id EXCEPT !.movie = @ + 1]
    /\ UNCHANGED <<theaters, halls, hall_seats, last_read, shows, show_seats, bookings,
                   next_booking_id, calls>>

\* POST /theaters
create_theater ==
    /\ next_id.theater <= MaxTheaters
    /\ theaters' = theaters \cup { [id |-> next_id.theater] }
    /\ next_id' = [next_id EXCEPT !.theater = @ + 1]
    /\ UNCHANGED <<movies, halls, hall_seats, last_read, shows, show_seats, bookings,
                   next_booking_id, calls>>

\* HallCreateRow: row_index >= 1 and seat_count >= 6 are enforced by the schema.
HallCreateRow(row_index, seat_count) == [row_index |-> row_index, seat_count |-> seat_count]

\* The seats the loops of create_hall add for the rows of a payload.
LayoutOf(hall_id, rows) ==
    UNION { { Seat(hall_id, rows[i].row_index, n) : n \in 1 .. rows[i].seat_count } :
            i \in 1 .. Len(rows) }

\* Two rows of a payload with the same row_index produce two seats with the
\* same (hall_id, row_index, seat_number): the unique constraint rejects them.
ViolatesUniqueSeat(rows) ==
    \E i, j \in 1 .. Len(rows) : i # j /\ rows[i].row_index = rows[j].row_index

\* POST /theaters/{theater_id}/halls. The hall and all its seats are
\* committed together; a 404 leaves everything as it was; a 400 or a rejected
\* commit rolls the hall back and leaves only the id sequence advanced.
create_hall(theater_id, rows) ==
    /\ next_id.hall <= MaxHalls
    /\ IF ~ \E th \in theaters : th.id = theater_id
       THEN UNCHANGED <<halls, hall_seats, next_id>>
       ELSE /\ next_id' = [next_id EXCEPT !.hall = @ + 1]
            /\ IF \/ \E i \in 1 .. Len(rows) : rows[i].seat_count < MinSeatCount
                  \/ ViolatesUniqueSeat(rows)
               THEN UNCHANGED <<halls, hall_seats>>
               ELSE /\ halls' = halls \cup { [id |-> next_id.hall, theater_id |-> theater_id] }
                    /\ hall_seats' = hall_seats \cup LayoutOf(next_id.hall, rows)
    /\ UNCHANGED <<movies, theaters, last_read, shows, show_seats, bookings,
                   next_booking_id, calls>>

\* As CopyHallSeats, but without the filter on the hall.
CopyAllSeats(seat_table, hall_id, show_id) ==
    { ShowSeat(show_id, hs.row_index, hs.seat_number, "available", 0) : hs \in seat_table }

\* The ShowSeat records create_show adds: one per seat of the hall.
CopyHallSeats(seat_table, hall_id, show_id) ==
    { ShowSeat(show_id, hs.row_index, hs.seat_number, "available", 0) :
        hs \in { x \in seat_table : x.hall_id = hall_id } }

\* POST /shows. The show and its seat records are committed together.
create_show(movie_id, hall_id, start_time) ==
    /\ next_id.show <= MaxShows
    /\ IF ~ (\E m \in movies : m.id = movie_id) \/ ~ (\E h \in halls : h.id = hall_id)
       THEN UNCHANGED <<shows, show_seats, next_id>>
       ELSE /\ shows' = shows \cup { [id |-> next_id.show, movie_id |-> movie_id,
                                      hall_id |-> hall_id, start_time |-> start_time] }
            /\ show_seats' = show_seats \cup CopyHallSeats(hall_seats, hall_id, next_id.show)
            /\ next_id' = [next_id EXCEPT !.show = @ + 1]
    /\ UNCHANGED <<movies, theaters, halls, hall_seats, last_read, bookings,
                   next_booking_id, calls>>

\* GET /bookings/{booking_id}
GetBooking(booking_id) ==
    /\ last_read' = [handler |-> "get_booking",
                     status_code |-> get_booking(bookings, show_seats, booking_id).status_code,
                     body |-> get_booking(bookings, show_seats, booking_id).seats]
    /\ UNCHANGED <<catalog, shows, show_seats, bookings, next_booking_id, calls>>

\* GET /shows/{show_id}/seats: 404 when the show has no seat record.
GetSeatMap(show_id) ==
    /\ LET found == { s \in show_seats : s.show_id = show_id }
       IN  last_read' = [handler |-> "show_seats",
                         status_code |-> IF found = {} THEN 404 ELSE 200,
                         body |-> { <<s.row_index, s.seat_number, s.status>> : s \in found }]
    /\ UNCHANGED <<catalog, shows, show_seats, bookings, next_booking_id, calls>>

\* GET /shows/{show_id}/availability_summary: per row, the number of seat
\* records and the number of available ones.
availability_summary(show_id) ==
    /\ LET found == { s \in show_seats : s.show_id = show_id }
           InRow(r) == { s \in found : s.row_index = r }
       IN  last_read' =
             [handler |-> "availability_summary",
              status_code |-> 200,
              body |-> { <<r, Cardinality(InRow(r)),
                           Cardinality({ s \in InRow(r) : s.status = "available" })>> :
                         r \in { s.row_index : s \in found } }]
    /\ UNCHANGED <<catalog, shows, show_seats, bookings, next_booking_id, calls>>

Next ==
    \/ \E p \in Requests, show_id \in RequestedShowIds, k \in RequestedSizes :
         BookGroup(p, show_id, k)
    \/ \E p \in Requests : Search(p)
    \/ \E p \in Requests : QueryCandidates(p)
    \/ \E p \in Requests : ScanCandidate(p)
    \/ \E p \in Requests : Lock(p)
    \/ \E p \in Requests : Validate(p)
    \/ \E p \in Requests : Commit(p)

Spec == Init /\ [][Next]_vars

\* The statements a call that has arrived still has to run.
Proceed(p) ==
    \/ Search(p)
    \/ QueryCandidates(p)
    \/ ScanCandidate(p)
    \/ Lock(p)
    \/ Validate(p)
    \/ Commit(p)

\* Under fairness the calls ask for seats of the one-row show 2 or of the
\* absent show 4.
FairShowIds == {2, 4}
FairSizes == RequestedSizes

FairNext ==
    \/ \E p \in Requests, show_id \in FairShowIds, k \in FairSizes : BookGroup(p, show_id, k)
    \/ \E p \in Requests : Search(p)
    \/ \E p \in Requests : QueryCandidates(p)
    \/ \E p \in Requests : ScanCandidate(p)
    \/ \E p \in Requests : Lock(p)
    \/ \E p \in Requests : Validate(p)
    \/ \E p \in Requests : Commit(p)

\* The next statement of call p can return: only q_lock ever waits.
CanProceed(p) ==
    \/ pc[p] \in {"Searching", "NoCandidate", "Suggesting", "Validating", "Committing"}
    \/ /\ pc[p] = "CandidateFound"
       /\ \A q \in Requests \ {p} :
            locked[q] \cap LockSet(show_seats, payload[p].show_id,
                                   RowsToLock(contiguous[p].seats)) = {}

Positions ==
    {"idle", "Searching", "NotFound", "CandidateFound", "NoCandidate", "Suggesting",
     "FailedNoBlock", "Validating", "Conflict", "Committing", "Committed"}

\* Call p runs its next statement: the steps of Proceed(p), told by what they
\* do to the position of p and to the candidate shows it has left to scan.
Resume(p) ==
    /\ CanProceed(p)
    /\ \E position \in Positions : pc' = [pc EXCEPT ![p] = position]
    /\ \/ candidates' = candidates
       \/ /\ pc[p] = "NoCandidate"
          /\ \E order \in OrdersByStartTime({ s \in shows :
                                               InWindow(ShowOf(p), s, TimeWindowMinutes) }) :
               candidates' = [candidates EXCEPT ![p] = order]
       \/ /\ pc[p] = "Suggesting"
          /\ candidates' = [candidates EXCEPT ![p] = Tail(candidates[p])]

\* The event loop resumes every coroutine whose awaited statement can return,
\* and the database answers every statement that is not waiting for a lock:
\* a call that can run its next statement does not stay where it is forever.
FairSpec ==
    Init /\ [][FairNext]_vars /\ \A p \in Requests : WF_<<pc, candidates>>(Resume(p))

\* ------------------------------------------------- finder on any snapshot

\* Largest group size the finder is asked for (one more than a row holds).
FinderMaxSize == 7

\* Every inventory of one show with rows 1 and 2 in which each seat is
\* available or booked, and the inventory with no record at all.
FinderSnapshots ==
    {{}} \cup
    { { ShowSeat(1, k[1], k[2], IF k \in booked THEN "booked" ELSE "available",
                 IF k \in booked THEN 1 ELSE 0) : k \in (1 .. 2) \X (1 .. RowSeats) } :
        booked \in SUBSET ((1 .. 2) \X (1 .. RowSeats)) }

FinderInit ==
    /\ movies = InitialMovies
    /\ theaters = InitialTheaters
    /\ halls = InitialHalls
    /\ hall_seats = InitialSeats
    /\ next_id = InitialNextId
    /\ last_read = NothingRead
    /\ shows = InitialShows
    /\ show_seats \in FinderSnapshots
    /\ bookings = {}
    /\ next_booking_id = 2
    /\ locked = [p \in Requests |-> {}]
    /\ pc = [p \in Requests |-> IF p = 1 THEN "Searching" ELSE "idle"]
    /\ \E k \in 1 .. FinderMaxSize :
         payload = [p \in Requests |-> [show_id |-> IF p = 1 THEN 1 ELSE 0,
                                        seats_requested |-> IF p = 1 THEN k ELSE 0]]
    /\ contiguous = [p \in Requests |-> None]
    /\ candidates = [p \in Requests |-> <<>>]
    /\ suggestions = [p \in Requests |-> <<>>]
    /\ response = [p \in Requests |-> NoResponse]

FinderNext == \E p \in Requests : Search(p)

FinderSpec == FinderInit /\ [][FinderNext]_vars

\* --------------------------------------- the service from an empty database

ApiRequests == 1 .. MaxApiRequests

\* payload.rows of the create_hall calls: no row, one row, two rows, and the
\* same row twice.
HallPayloads ==
    { <<>>,
      <<HallCreateRow(1, RowSeats)>>,
      <<HallCreateRow(1, RowSeats), HallCreateRow(2, RowSeats)>>,
      <<HallCreateRow(1, RowSeats), HallCreateRow(1, RowSeats)>> }

\* Path and payload ids of the catalog calls; the last of each names nothing.
TheaterIds == 1 .. MaxTheaters + 1
MovieIds == 1 .. MaxMovies + 1
HallIds == 1 .. MaxHalls + 1
ShowIds == 1 .. MaxShows + 1
StartTimes == {0}
ApiSizes == {0, 4}
BookingIds == 1 .. MaxApiRequests

ApiInit ==
    /\ movies = {}
    /\ theaters = {}
    /\ halls = {}
    /\ hall_seats = {}
    /\ next_id = [movie |-> 1, theater |-> 1, hall |-> 1, show |-> 1]
    /\ last_read = NothingRead
    /\ shows = {}
    /\ show_seats = {}
    /\ bookings = {}
    /\ next_booking_id = 1
    /\ locked = [p \in Requests |-> {}]
    /\ pc = [p \in Requests |-> "idle"]
    /\ payload = [p \in Requests |-> [show_id |-> 0, seats_requested |-> 0]]
    /\ contiguous = [p \in Requests |-> None]
    /\ candidates = [p \in Requests |-> <<>>]
    /\ suggestions = [p \in Requests |-> <<>>]
    /\ response = [p \in Requests |-> NoResponse]

ApiNext ==
    \/ create_movie
    \/ create_theater
    \/ \E theater_id \in TheaterIds, rows \in HallPayloads : create_hall(theater_id, rows)
    \/ \E movie_id \in MovieIds, hall_id \in HallIds, start_time \in StartTimes :
         create_show(movie_id, hall_id, start_time)
    \/ \E p \in ApiRequests, show_id \in ShowIds, k \in ApiSizes : BookGroup(p, show_id, k)
    \/ \E p \in ApiRequests : Search(p)
    \/ \E p \in ApiRequests : QueryCandidates(p)
    \/ \E p \in ApiRequests : ScanCandidate(p)
    \/ \E p \in ApiRequests : Lock(p)
    \/ \E p \in ApiRequests : Validate(p)
    \/ \E p \in ApiRequests : Commit(p)
    \/ \E booking_id \in BookingIds : GetBooking(booking_id)
    \/ \E show_id \in ShowIds : GetSeatMap(show_id)
    \/ \E show_id \in ShowIds : availability_summary(show_id)

ApiSpec == ApiInit /\ [][ApiNext]_vars

\* ------------------------------------------------------------------ claims

\* Seat numbers of the available seats of a row of a show.
AvailableIn(table, show_id, row) ==
    { s.seat_number : s \in { x \in table : /\ x.show_id = show_id
                                            /\ x.row_index = row
                                            /\ x.status = "available" } }

\* Seats n, n+1, ..., n+k-1 of the row are all available.
RunAt(table, show_id, row, n, k) ==
    \A j \in 0 .. k - 1 : n + j \in AvailableIn(table, show_id, row)

RowsOf(table, show_id) == { s.row_index : s \in { x \in table : x.show_id = show_id } }

SeatNumbersOf(table, show_id) ==
    { s.seat_number : s \in { x \in table : x.show_id = show_id } }

RowsWithRun(table, show_id, k) ==
    { r \in RowsOf(table, show_id) :
        \E n \in SeatNumbersOf(table, show_id) : RunAt(table, show_id, r, n, k) }

\* The block the finder is to return for k >= 1: the left-most run of k
\* available seats of the lowest row that has one.
FirstBlock(table, show_id, k) ==
    IF RowsWithRun(table, show_id, k) = {} THEN None
    ELSE LET r == CHOOSE x \in RowsWithRun(table, show_id, k) :
                    \A y \in RowsWithRun(table, show_id, k) : x <= y
             starts == { n \in SeatNumbersOf(table, show_id) :
                           RunAt(table, show_id, r, n, k) }
             n == CHOOSE x \in starts : \A y \in starts : x <= y
         IN  Some([ j \in 1 .. k |-> <<r, n + j - 1>> ])

\* One row of seats 1..10 with seats 3 and 7 booked.
ExampleSnapshot ==
    { ShowSeat(1, 1, n, IF n \in {3, 7} THEN "booked" ELSE "available",
               IF n \in {3, 7} THEN 1 ELSE 0) : n \in 1 .. 10 }

\* C7: for every inventory snapshot and group size k >= 1 the finder returns
\* the left-most run of k consecutive available seats of the lowest-indexed
\* row that has one, and None exactly when no row has such a run (also when
\* the show has no seat records); on seats 1..10 with 3 and 7 booked and
\* k = 3 it returns row 1, seats 4, 5, 6.
C7_FinderFirstBlock ==
    /\ \A p \in Requests :
         pc[p] \in {"CandidateFound", "NoCandidate"} =>
           contiguous[p] = FirstBlock(show_seats, payload[p].show_id,
                                      payload[p].seats_requested)
    /\ find_contiguous_in_show(ExampleSnapshot, 1, 3) = Some(<<<<1, 4>>, <<1, 5>>, <<1, 6>>>>)

\* Row 1 has available seats but no two side by side, and row 2 has none at
\* its first seats: the finder returned a later pair of row 2.
C7_Witness ==
    \E p \in Requests :
      /\ pc[p] = "CandidateFound"
      /\ payload[p].seats_requested = 2
      /\ contiguous[p].seats[1][1] = 2
      /\ contiguous[p].seats[1][2] > 2
      /\ AvailableIn(show_seats, 1, 1) # {}

\* ---------------------------------------------------- claims on book_group

Failed == {"NotFound", "FailedNoBlock", "Conflict"}
Terminal == Failed \cup {"Committed"}

SeqToSet(seq) == { seq[i] : i \in DOMAIN seq }

\* The seat records that reference booking b, as (show, row, seat-number).
OwnedKeys(b) == { SeatKey(s) : s \in { x \in show_seats : x.booking_id = b.id } }

\* The seats book_group returned to the call that made booking b.
ReturnedKeys(b) ==
    { <<b.show_id, rs[1], rs[2]>> : rs \in SeqToSet(response[b.request].seats) }

\* Everything booking b lays claim to: the records that reference it and the
\* seats its caller was told it holds.
ClaimedKeys(b) ==
    OwnedKeys(b) \cup (IF pc[b.request] = "Committed" THEN ReturnedKeys(b) ELSE {})

\* C1: any two distinct committed Bookings of the same screening hold
\* disjoint sets of (row, seat-number), under every interleaving of the
\* book_group calls.
C1_DisjointBookings ==
    \A b1, b2 \in bookings :
      (b1 # b2 /\ b1.show_id = b2.show_id) => ClaimedKeys(b1) \cap ClaimedKeys(b2) = {}

\* Two bookings with seats stand on one screening after a third call that
\* raced for the same seats was turned away.
C1_Witness ==
    \E b1, b2 \in bookings :
      /\ b1 # b2 /\ b1.show_id = b2.show_id
      /\ OwnedKeys(b1) # {} /\ OwnedKeys(b2) # {}
      /\ \E p \in Requests : pc[p] = "Conflict" /\ payload[p].show_id = b1.show_id

\* Calls p and q left Searching with the same non-empty candidate block for
\* the same screening, and both have ended.  (A seat of the block is booked
\* once one of them commits and the finder returns available seats only, so
\* both searched before either committed.)
RacedForSameBlock(p, q) ==
    /\ p # q
    /\ pc[p] \in Terminal \ {"NotFound"} /\ pc[q] \in Terminal \ {"NotFound"}
    /\ payload[p].show_id = payload[q].show_id
    /\ contiguous[p].some /\ contiguous[p].seats # <<>>
    /\ contiguous[q] = contiguous[p]

BlockKeys(p) ==
    { <<payload[p].show_id, rs[1], rs[2]>> : rs \in SeqToSet(contiguous[p].seats) }

\* Call p is Committed and holds exactly its candidate block.
HoldsItsBlock(p) ==
    /\ pc[p] = "Committed"
    /\ response[p].status_code = 200
    /\ response[p].seats = contiguous[p].seats
    /\ \E b \in bookings : /\ b.id = response[p].booking_id
                           /\ b.request = p
                           /\ OwnedKeys(b) = BlockKeys(p)

\* Call p failed with the retryable conflict and booked nothing.
LostToConflict(p) ==
    /\ pc[p] = "Conflict"
    /\ response[p].status_code = 409
    /\ ~response[p].has_suggestions
    /\ ~\E b \in bookings : b.request = p

\* C2 as stated, when every call asks for at least one seat: of two calls
\* that raced for the same block exactly one is Committed holding the block
\* and the other failed with the conflict.
C2_Original ==
    \A p, q \in Requests :
      ( /\ RacedForSameBlock(p, q)
        /\ \A r \in Requests : pc[r] # "idle" => payload[r].seats_requested >= 1 ) =>
        \/ HoldsItsBlock(p) /\ LostToConflict(q)
        \/ HoldsItsBlock(q) /\ LostToConflict(p)

\* C2 (amended): of two calls that raced for the same block at most one is
\* Committed, it then holds the block, and each one that is not Committed
\* failed with the conflict (409, no suggestion list) and booked nothing; one
\* of the two is Committed unless a third call booked a seat of the block.
C2_OneWinner ==
    \A p, q \in Requests :
      RacedForSameBlock(p, q) =>
        /\ HoldsItsBlock(p) \/ LostToConflict(p)
        /\ HoldsItsBlock(q) \/ LostToConflict(q)
        /\ ~(pc[p] = "Committed" /\ pc[q] = "Committed")
        /\ (\A b \in bookings : b.request \notin {p, q} => OwnedKeys(b) \cap BlockKeys(p) = {})
             => (pc[p] = "Committed" \/ pc[q] = "Committed")

\* Two calls for 4 seats searched the same row before either committed; one
\* is Committed and the other was turned away.
C2_Witness ==
    \E p, q \in Requests :
      /\ RacedForSameBlock(p, q)
      /\ payload[p].seats_requested = 4
      /\ pc[p] = "Committed" /\ pc[q] = "Conflict"

\* Number of blocks of k seats that fit in the available seats n..last of a
\* row, packed from the left.
RECURSIVE BlocksFrom(_, _, _, _)
BlocksFrom(avail, n, last, k) ==
    IF n > last THEN 0
    ELSE IF \A j \in 0 .. k - 1 : n + j \in avail
         THEN 1 + BlocksFrom(avail, n + k, last, k)
         ELSE BlocksFrom(avail, n + 1, last, k)

RECURSIVE SumBlocks(_, _, _, _)
SumBlocks(table, show_id, rows, k) ==
    IF rows = {} THEN 0
    ELSE LET r == CHOOSE x \in rows : TRUE
         IN  BlocksFrom(AvailableIn(table, show_id, r), 1, RowSeats, k)
               + SumBlocks(table, show_id, rows \ {r}, k)

\* Number of blocks of k seats the rows of a show have room for.
BlockCapacity(table, show_id, k) == SumBlocks(table, show_id, RowsOf(table, show_id), k)

Supply(table, show_id) ==
    Cardinality({ s \in table : s.show_id = show_id /\ s.status = "available" })

\* Every call asked for k >= 1 seats of show s, their total demand exceeds the
\* seats the show had, and all of them have ended.
Oversubscribed(show_id, k) ==
    /\ k >= 1
    /\ \A p \in Requests : /\ pc[p] \in Terminal
                           /\ payload[p].show_id = show_id
                           /\ payload[p].seats_requested = k
    /\ MaxRequests * k > Supply(InitialShowSeats, show_id)

CommittedCalls == { p \in Requests : pc[p] = "Committed" }

NoOverlapAmongCommitted ==
    \A p, q \in CommittedCalls :
      (p # q /\ payload[p].show_id = payload[q].show_id)
        => SeqToSet(response[p].seats) \cap SeqToSet(response[q].seats) = {}

\* C3 as stated: when the calls oversubscribe a show, the number of Committed
\* bookings is exactly the number of size-k blocks the rows have room for.
C3_Original ==
    \A s \in shows : \A k \in RequestedSizes :
      Oversubscribed(s.id, k) =>
        /\ Cardinality(CommittedCalls) = BlockCapacity(InitialShowSeats, s.id, k)
        /\ \A p \in Requests \ CommittedCalls : pc[p] \in {"Conflict", "FailedNoBlock"}
        /\ NoOverlapAmongCommitted

\* C3 (amended): when the calls oversubscribe a show, the number of Committed
\* bookings is at most the number of size-k blocks the rows have room for, and
\* at least one when that number is positive; every other call ended in
\* Conflict or NoAvailableBlock, and no two Committed calls hold a common seat.
C3_AtMostCapacity ==
    \A s \in shows : \A k \in RequestedSizes :
      Oversubscribed(s.id, k) =>
        /\ Cardinality(CommittedCalls) <= BlockCapacity(InitialShowSeats, s.id, k)
        /\ BlockCapacity(InitialShowSeats, s.id, k) >= 1 => Cardinality(CommittedCalls) >= 1
        /\ \A p \in Requests \ CommittedCalls : pc[p] \in {"Conflict", "FailedNoBlock"}
        /\ \A p \in CommittedCalls : Len(response[p].seats) = k
        /\ NoOverlapAmongCommitted

\* Three calls for 3 seats of the one-row show have ended: the row has room
\* for two blocks and both are booked, the third call found no block.
C3_Witness ==
    /\ Oversubscribed(2, 3)
    /\ Cardinality(CommittedCalls) = 2
    /\ \E p \in Requests : pc[p] = "FailedNoBlock"

\* C4: the seat records that reference a Booking made by a call of group size
\* k >= 1 are exactly k records of the booking's own screening, in one row,
\* with consecutive seat numbers.
C4_ContiguousBlock ==
    \A b \in bookings :
      LET k == payload[b.request].seats_requested
      IN  k >= 1 =>
            \E r \in RowsOf(show_seats, b.show_id) :
              \E n \in SeatNumbersOf(show_seats, b.show_id) :
                OwnedKeys(b) = { <<b.show_id, r, n + j>> : j \in 0 .. k - 1 }

\* A booking of 3 seats that does not start at the first seat of its row, with
\* another booking beside it.
C4_Witness ==
    \E b \in bookings :
      /\ payload[b.request].seats_requested = 3
      /\ <<b.show_id, 1, 4>> \in OwnedKeys(b)
      /\ Cardinality(bookings) >= 2

\* C5 (the claim): a call with group size k <= 0 creates no Booking, so every
\* Booking was made by a call of size k >= 1 and is referenced by exactly k
\* seat records.
C5_NoBookingForNonPositiveSize ==
    \A b \in bookings :
      /\ payload[b.request].seats_requested >= 1
      /\ OwnedKeys(b) # {}
      /\ Cardinality(OwnedKeys(b)) = payload[b.request].seats_requested

\* A step taken by call p.
StepOf(p) ==
    \/ pc'[p] # pc[p]
    \/ candidates'[p] # candidates[p]

\* C6: a call that ends in a failure (404 for an absent show, 409 with
\* suggestions, 409 conflict) changed no seat record and no Booking: every
\* step of a call other than the one that makes it Committed leaves both
\* tables as they are, a failed call stays failed, and no Booking and no seat
\* record comes from a failed call.
C6_FailureChangesNothing ==
    /\ [][ \A p \in Requests :
             /\ (StepOf(p) /\ pc'[p] # "Committed")
                  => (show_seats' = show_seats /\ bookings' = bookings)
             /\ pc[p] \in Failed => pc'[p] = pc[p] ]_vars
    /\ [](\A p \in Requests :
            pc[p] \in Failed =>
              /\ ~\E b \in bookings : b.request = p
              /\ response[p].booking_id = 0 /\ response[p].seats = <<>>)

\* Both 409 failures have happened: one call lost its seats to a booking,
\* another found no block.
C6_Witness ==
    /\ \E p \in Requests : pc[p] = "Conflict"
    /\ \E p \in Requests : pc[p] = "FailedNoBlock"
    /\ bookings # {}

\* C9: after book_group returned booking id b and seats S, GET /bookings/b
\* finds the booking and returns exactly the seats S, in every later state.
C9_ReadBack ==
    \A p \in Requests :
      pc[p] = "Committed" =>
        get_booking(bookings, show_seats, response[p].booking_id)
          = [status_code |-> 200, seats |-> SeqToSet(response[p].seats)]

\* A booking with seats was followed by two more bookings of the same show.
C9_Witness ==
    \E p \in Requests :
      /\ pc[p] = "Committed"
      /\ response[p].booking_id = 1
      /\ response[p].seats # <<>>
      /\ \A q \in Requests : pc[q] = "Committed" /\ payload[q].show_id = payload[p].show_id
      /\ next_booking_id = 4

\* C10: a seat record that is booked, or whose booking reference is set, is
\* never changed again; a record that changes goes from available with no
\* reference to booked.
C10_BookedOnce ==
    [][ /\ \A s \in show_seats :
             (s.status = "booked" \/ s.booking_id # 0) => s \in show_seats'
        /\ \A s \in show_seats \ show_seats' :
             /\ s.status = "available"
             /\ \E n \in show_seats' : /\ SeatKey(n) = SeatKey(s)
                                       /\ n.status = "booked" ]_vars

\* A row holds a booked block and, beside it, a block booked later.
C10_Witness ==
    \E s1, s2 \in show_seats :
      /\ s1.show_id = s2.show_id /\ s1.row_index = s2.row_index
      /\ s1.booking_id = 1 /\ s2.booking_id = 2

\* The Show row with the given id.
ShowById(id) == CHOOSE s \in shows : s.id = id

\* Start times at most one time window apart.
WithinWindow(s1, s2) ==
    /\ s1.start_time - s2.start_time <= TimeWindowMinutes
    /\ s2.start_time - s1.start_time <= TimeWindowMinutes

\* block is k seats of one row of the show with consecutive seat numbers.
IsBlockOf(block, show_id, k) ==
    /\ Len(block) = k
    /\ \A i \in DOMAIN block :
         \E s \in show_seats : /\ s.show_id = show_id
                               /\ <<s.row_index, s.seat_number>> = block[i]
    /\ \A i \in 1 .. Len(block) - 1 :
         block[i + 1] = <<block[i][1], block[i][2] + 1>>

\* C8: a call that found no block for an existing show fails with the 409
\* that carries the suggestion list.  Every entry names a show that starts
\* within 180 minutes of the requested show, with that show's start time;
\* the entries are in ascending order of start time, one per show.  For a
\* group size k >= 1 an entry is added for a scanned show exactly when the
\* show has a run of k available seats, and holds the show's first such
\* block; every show in the window that still has a block when the call
\* fails is in the list.
C8_Suggestions ==
    /\ [](\A p \in Requests :
            pc[p] = "FailedNoBlock" =>
              LET list == response[p].suggestions
                  k == payload[p].seats_requested
              IN  /\ response[p].status_code = 409
                  /\ response[p].has_suggestions
                  /\ ~contiguous[p].some
                  /\ \A i \in DOMAIN list :
                       /\ \E s \in shows : s.id = list[i].show_id
                       /\ WithinWindow(ShowById(list[i].show_id), ShowOf(p))
                       /\ list[i].start_time = isoformat(ShowById(list[i].show_id).start_time)
                       /\ k >= 1 => IsBlockOf(list[i].seats, list[i].show_id, k)
                  /\ \A i, j \in DOMAIN list :
                       i < j => /\ list[i].show_id # list[j].show_id
                                /\ ShowById(list[i].show_id).start_time
                                     <= ShowById(list[j].show_id).start_time
                  /\ k >= 1 =>
                       \A s \in shows :
                         (WithinWindow(s, ShowOf(p)) /\ FirstBlock(show_seats, s.id, k).some)
                           => \E i \in DOMAIN list : list[i].show_id = s.id)
    /\ [][ \A p \in Requests :
             (pc[p] = "Suggesting" /\ StepOf(p) /\ payload[p].seats_requested >= 1) =>
               LET s == Head(candidates[p])
                   first == FirstBlock(show_seats, s.id, payload[p].seats_requested)
               IN  suggestions'[p] =
                     IF first.some
                     THEN Append(suggestions[p],
                                 [show_id |-> s.id, start_time |-> isoformat(s.start_time),
                                  seats |-> first.seats])
                     ELSE suggestions[p] ]_vars

\* A call for 3 seats of show 2 failed after 4 of its 6 seats were booked; the
\* list suggests show 3 and then show 1, which start exactly one time window
\* before and after show 2.
C8_Witness ==
    \E p \in Requests :
      /\ pc[p] = "FailedNoBlock"
      /\ payload[p] = [show_id |-> 2, seats_requested |-> 3]
      /\ Len(response[p].suggestions) = 2
      /\ response[p].suggestions[1].show_id = 3
      /\ response[p].suggestions[2].show_id = 1

\* ------------------------------------------------------------------- C11

\* The (row_index, seat_number) pairs of a hall's layout.
LayoutKeys(hall_id) ==
    { <<x.row_index, x.seat_number>> : x \in { y \in hall_seats : y.hall_id = hall_id } }

\* The seat records of a show in a show_seats table, and their positions.
RecordsOf(table, show_id) == { x \in table : x.show_id = show_id }
PositionsOf(table, show_id) ==
    { <<x.row_index, x.seat_number>> : x \in RecordsOf(table, show_id) }

\* C11: the step that creates a show leaves it with exactly one seat record
\* for each (row, seat number) of its hall's layout as it is at that step,
\* each available and without a booking reference; no step removes a show,
\* and no step adds a seat record to, or removes one from, a show that
\* already exists (a step may only change status and booking reference).
C11_InventoryCopiedOnce ==
    [][ /\ shows \subseteq shows'
        /\ \A s \in shows' \ shows :
             /\ PositionsOf(show_seats', s.id) = LayoutKeys(s.hall_id)
             /\ Cardinality(RecordsOf(show_seats', s.id)) = Cardinality(LayoutKeys(s.hall_id))
             /\ \A x \in RecordsOf(show_seats', s.id) :
                  x.status = "available" /\ x.booking_id = 0
        /\ \A s \in shows :
             /\ PositionsOf(show_seats', s.id) = PositionsOf(show_seats, s.id)
             /\ Cardinality(RecordsOf(show_seats', s.id))
                  = Cardinality(RecordsOf(show_seats, s.id))
        /\ \A x \in show_seats' : \E s \in shows' : s.id = x.show_id ]_vars

\* Two halls with different layouts exist, a show was created in the one-row
\* hall after a show of the two-row hall had a booking, and the second show
\* still has one record per seat of its own hall.
C11_Witness ==
    /\ \E h1, h2 \in halls : Cardinality(LayoutKeys(h1.id)) > Cardinality(LayoutKeys(h2.id))
                              /\ LayoutKeys(h2.id) # {}
                              /\ \E s1, s2 \in shows :
                                   /\ s1.hall_id = h1.id /\ s2.hall_id = h2.id
                                   /\ s1.id < s2.id
                                   /\ \E x \in RecordsOf(show_seats, s1.id) : x.status = "booked"
                                   /\ PositionsOf(show_seats, s2.id) = LayoutKeys(h2.id)
    /\ bookings # {}

\* ------------------------------------------------------------------- C12

\* The committed record of seat rs of the show request p books.
RecordAt(p, rs) ==
    { x \in show_seats : x.show_id = payload[p].show_id
                          /\ x.row_index = rs[1] /\ x.seat_number = rs[2] }

\* Every seat of p's candidate block has a committed record that is available
\* and that p's transaction holds locked.
BlockAvailableUnderLock(p) ==
    \A rs \in SeqToSet(contiguous[p].seats) :
      /\ RecordAt(p, rs) # {}
      /\ \A x \in RecordAt(p, rs) : x.status = "available" /\ SeatKey(x) \in locked[p]

\* Some seat of p's candidate block is committed as not available.
SomeSeatTaken(p) ==
    \E rs \in SeqToSet(contiguous[p].seats) :
      \E x \in RecordAt(p, rs) : x.status # "available"

\* C12: a call with a non-empty candidate block passes the re-check, and later
\* commits, only from a state whose committed show_seats has every seat of
\* the block available while the call holds the lock on them; it ends in
\* Conflict only from a state whose committed show_seats has a seat of the
\* block not available. The committed table at the step decides, whatever the
\* unlocked search had read.
C12_DecidedUnderLock ==
    [][ \A p \in Requests :
          contiguous[p].seats # <<>> =>
            /\ (pc[p] = "Validating" /\ pc'[p] = "Committing") => BlockAvailableUnderLock(p)
            /\ (pc[p] = "Committing" /\ pc'[p] = "Committed") => BlockAvailableUnderLock(p)
            /\ (pc[p] = "Validating" /\ pc'[p] = "Conflict") => SomeSeatTaken(p)
            /\ (pc[p] = "Validating" /\ SomeSeatTaken(p)) => pc'[p] \in {"Validating", "Conflict"}
      ]_vars

\* One call lost its block to a booking made after its search and ended in
\* Conflict, while another has passed the re-check and holds its lock.
C12_Witness ==
    \E p, q, r \in Requests :
      /\ pc[p] = "Conflict" /\ contiguous[p].seats # <<>> /\ SomeSeatTaken(p)
      /\ pc[q] = "Committed" /\ payload[q].show_id = payload[p].show_id
      /\ SeqToSet(response[q].seats) \cap SeqToSet(contiguous[p].seats) # {}
      /\ pc[r] = "Committing" /\ contiguous[r].seats # <<>> /\ locked[r] # {}

\* ------------------------------------------------------------------- C13

\* The keys of every seat record of a row of a show.
RowKeys(show_id, row_index) ==
    { SeatKey(x) : x \in { y \in show_seats : y.show_id = show_id /\ y.row_index = row_index } }

\* Request p is inside its transaction with the lock on the whole row of x.
HoldsRowOf(p, x) ==
    /\ pc[p] = "Committing"
    /\ RowKeys(x.show_id, x.row_index) \subseteq locked[p]

\* C13: no seat record is locked by two transactions at once, a transaction
\* that holds a record holds its whole row, and every step that changes a
\* seat record is the commit of a transaction that holds the lock on that
\* record's row of that show; so of two transactions on one row the second
\* gets the lock only after the first has committed or rolled back.
C13_WritesUnderRowLock ==
    /\ [](\A p, q \in Requests : p # q => locked[p] \cap locked[q] = {})
    /\ [](\A p \in Requests : \A x \in show_seats :
            SeatKey(x) \in locked[p] => RowKeys(x.show_id, x.row_index) \subseteq locked[p])
    /\ [][ \A x \in show_seats \ show_seats' :
             \E p \in Requests :
               /\ HoldsRowOf(p, x)
               /\ pc'[p] = "Committed"
               /\ locked'[p] = {}
               /\ \A q \in Requests \ {p} : SeatKey(x) \notin locked[q] ]_vars

\* A booking stands in a row, a second call holds the lock on that row, and a
\* third call with a candidate in the same row has not got the lock yet.
C13_Witness ==
    \E p, q, r \in Requests :
      /\ pc[p] = "Committed" /\ response[p].seats # <<>>
      /\ pc[q] \in {"Validating", "Committing"} /\ locked[q] # {}
      /\ payload[q].show_id = payload[p].show_id
      /\ RowsToLock(contiguous[q].seats) = RowsToLock(response[p].seats)
      /\ pc[r] = "CandidateFound" /\ contiguous[r].seats # <<>>
      /\ LockSet(show_seats, payload[r].show_id, RowsToLock(contiguous[r].seats)) = locked[q]

\* ------------------------------------------------------------------- C14

\* The committed records of the seats of p's candidate block.
BlockRecords(p) == { x \in show_seats : SeatKey(x) \in BlockKeys(p) }

\* C14: in every committed state (what get_booking, show_seats and another
\* call's finder read), a call either has no Booking, and then no seat record
\* references a Booking of its, or has one Booking, and then the records that
\* reference it are exactly the seats of its candidate block, all of them
\* booked; every booking reference names a Booking that exists; and once a
\* Booking exists the set of records referencing it never changes.
C14_AllOrNothing ==
    /\ [](\A p \in Requests :
            IF pc[p] = "Committed"
            THEN \E b \in bookings :
                   /\ b.request = p
                   /\ \A c \in bookings : c.request = p => c = b
                   /\ OwnedKeys(b) = BlockKeys(p)
                   /\ Cardinality(OwnedKeys(b)) = Len(contiguous[p].seats)
                   /\ \A x \in BlockRecords(p) : x.status = "booked" /\ x.booking_id = b.id
            ELSE /\ \A b \in bookings : b.request # p
                 /\ \A x \in BlockRecords(p) :
                      x.booking_id = 0 \/ \E b \in bookings : b.id = x.booking_id /\ b.request # p)
    /\ [](\A x \in show_seats : x.booking_id # 0 => \E b \in bookings : b.id = x.booking_id)
    /\ [][ \A b \in bookings :
             /\ b \in bookings'
             /\ { x \in show_seats' : x.booking_id = b.id }
                  = { x \in show_seats : x.booking_id = b.id } ]_vars

\* One call owns its whole block of 4 seats while another, past the re-check
\* and about to commit, has no Booking and an untouched block in the same show.
C14_Witness ==
    \E p, q \in Requests :
      /\ pc[p] = "Committed" /\ Len(contiguous[p].seats) = 4
      /\ \E b \in bookings : b.request = p /\ Cardinality(OwnedKeys(b)) = 4
      /\ pc[q] = "Committing" /\ payload[q].show_id = payload[p].show_id
      /\ Len(contiguous[q].seats) = 3
      /\ \A x \in BlockRecords(q) : x.status = "available" /\ x.booking_id = 0
      /\ \A b \in bookings : b.request # q

\* ------------------------------------------------------------------- C15

\* The protocol state of a call: the loop over the candidate shows belongs to
\* NoCandidate, the insert and update inside the transaction to Validating.
Phase(position) ==
    CASE position = "Suggesting" -> "NoCandidate"
      [] position = "Committing" -> "Validating"
      [] OTHER -> position

\* The transitions of the booking protocol.
ProtocolSteps ==
    { <<"idle", "Searching">>, <<"idle", "NotFound">>,
      <<"Searching", "CandidateFound">>, <<"Searching", "NoCandidate">>,
      <<"CandidateFound", "Validating">>,
      <<"Validating", "Committed">>, <<"Validating", "Conflict">>,
      <<"NoCandidate", "FailedNoBlock">> }

\* The reply that belongs to each final state.
ReplyMatches(p) ==
    CASE pc[p] = "Committed" -> response[p].status_code = 200
      [] pc[p] = "FailedNoBlock" -> response[p].status_code = 409 /\ response[p].has_suggestions
      [] pc[p] = "Conflict" -> response[p].status_code = 409 /\ ~ response[p].has_suggestions
      [] pc[p] = "NotFound" -> response[p].status_code = 404
      [] OTHER -> response[p] = NoResponse

\* C15: under fair scheduling (the steps that fairness is assumed of are the
\* call's own statements) every call that has arrived ends in Committed, in
\* the 409 with suggestions, in the 409 conflict or in the 404, and stays
\* there with the matching reply; a call moves only along the transitions of
\* the protocol; and only a call inside its transaction holds a lock, so no
\* call waits for a lock forever.
C15_Terminates ==
    /\ \A p \in Requests : (pc[p] # "idle") ~> (pc[p] \in Terminal)
    /\ [][ \A p \in Requests :
             /\ <<Proceed(p)>>_vars <=> <<Resume(p)>>_<<pc, candidates>>
             /\ Phase(pc'[p]) # Phase(pc[p]) => <<Phase(pc[p]), Phase(pc'[p])>> \in ProtocolSteps
             /\ pc[p] \in Terminal => pc'[p] = pc[p] /\ response'[p] = response[p] ]_vars
    /\ [](\A p \in Requests :
            /\ ReplyMatches(p)
            /\ locked[p] # {} => pc[p] \in {"Validating", "Committing"})

\* Three of the four endings have happened in one run of three calls (the
\* 404 needs a fourth): a booking, a conflict and a failure with no
\* block, all with no lock left.
C15_Witness ==
    /\ \E p, q, r \in Requests :
         pc[p] = "Committed" /\ pc[q] = "Conflict" /\ pc[r] = "FailedNoBlock"
    /\ \A p \in Requests : locked[p] = {}

\* ------------------------------------------------------------------- C16

\* Call q is inside its transaction (between q_lock and the commit).
InTransaction(q) == pc[q] \in {"Validating", "Committing"}

\* The (show, row) pairs of the candidate block of call p.
CandidateRows(p) == { <<payload[p].show_id, r>> : r \in RowsToLock(contiguous[p].seats) }

\* C16: a call whose candidate block shares no row of a show with the block
\* of any call that is inside its transaction gets its lock at once, and a
\* call inside its transaction re-checks and commits without waiting for
\* anything; so two calls on different rows, or on different shows, can be
\* inside their transactions together and commit in either order.
C16_DisjointRowsIndependent ==
    \A p \in Requests :
      /\ (/\ pc[p] = "CandidateFound"
          /\ \A q \in Requests \ {p} :
               InTransaction(q) => CandidateRows(q) \cap CandidateRows(p) = {})
           => ENABLED Lock(p)
      /\ pc[p] = "Validating" => ENABLED Validate(p)
      /\ pc[p] = "Committing" => ENABLED Commit(p)

\* After a booking of seats 1..3 of row 1 of show 1, two calls are about to
\* commit at the same time, one in row 1 and one in row 2 of that show, each
\* holding the lock on its own row.
C16_Witness ==
    \E p, q, r \in Requests :
      /\ pc[r] = "Committed" /\ payload[r].show_id = 1
      /\ pc[p] = "Committing" /\ pc[q] = "Committing"
      /\ CandidateRows(p) = {<<1, 1>>}
      /\ CandidateRows(q) = {<<1, 2>>}
      /\ locked[p] # {} /\ locked[q] # {} /\ locked[p] \cap locked[q] = {}

\* ------------------------------------------------------------------- C17

\* Positions of a call outside its transaction.
Unlocked == {"idle", "Searching", "NotFound", "NoCandidate", "Suggesting", "FailedNoBlock"}

\* The step changes a seat record of a show that exists, or the Bookings.
WritesInventory ==
    \/ bookings' # bookings
    \/ \E x \in show_seats : x \notin show_seats'

\* C17: the arrival of a call, the finder, the query for the candidate shows
\* and every pass of the suggestion loop take no lock and leave every seat
\* record and every Booking as they were, and a call outside its transaction
\* holds no lock; get_booking, show_seats and availability_summary change
\* nothing but the reply they give; the only step that changes a seat record
\* or adds a Booking is the commit of a book_group call. (The seat records
\* create_show inserts for a new show are the subject of C11.)
C17_OnlyCommitWrites ==
    /\ [][ /\ \A p \in Requests :
                (pc[p] \in {"idle", "Searching", "NoCandidate", "Suggesting"} /\ StepOf(p))
                  => /\ show_seats' = show_seats
                     /\ bookings' = bookings
                     /\ next_booking_id' = next_booking_id
                     /\ locked' = locked
           /\ last_read' # last_read
                => UNCHANGED <<catalog, shows, show_seats, bookings, next_booking_id, calls>>
           /\ WritesInventory
                => \E p \in Requests : pc[p] = "Committing" /\ pc'[p] = "Committed"
           /\ show_seats' # show_seats
                => \/ \E p \in Requests : pc[p] = "Committing" /\ pc'[p] = "Committed"
                   \/ shows' # shows ]_vars
    /\ [](\A p \in Requests : pc[p] \in Unlocked => locked[p] = {})

\* After one call booked 4 of the 6 seats of a show, a second call for 4
\* seats of it failed with a suggestion of the other show, and a read handler
\* has answered: the booking is the only change to the inventory.
C17_Witness ==
    \E p, q \in Requests :
      /\ pc[p] = "Committed" /\ Len(response[p].seats) = 4
      /\ pc[q] = "FailedNoBlock" /\ payload[q].show_id = payload[p].show_id
      /\ Len(response[q].suggestions) = 1
      /\ last_read.handler = "show_seats" /\ last_read.status_code = 200
      /\ Cardinality(bookings) = 1
      /\ Cardinality({ x \in show_seats : x.status = "booked" }) = 4

\* ------------------------------------------------------------------- C18

\* C18: in every committed state a seat record is either available with no
\* booking reference or booked with one, and a booking reference names a
\* Booking that exists and belongs to the seat's own show.
C18_StatusMatchesReference ==
    \A x \in show_seats :
      /\ x.status \in {"available", "booked"}
      /\ x.status = "booked" <=> x.booking_id # 0
      /\ x.booking_id # 0 =>
           \E b \in bookings : b.id = x.booking_id /\ b.show_id = x.show_id

\* Two shows built from the empty database each have a booking of 4 seats,
\* next to seats that are still available.
C18_Witness ==
    /\ Cardinality(shows) = 2
    /\ \A s \in shows :
         /\ Cardinality({ x \in RecordsOf(show_seats, s.id) : x.status = "booked" }) = 4
         /\ \E x \in RecordsOf(show_seats, s.id) : x.status = "available"
         /\ \E b \in bookings : b.show_id = s.id

\* ------------------------------------------------------------------- C19

\* What q_check returns to call p in the current committed state.
SeatsNowOf(p) == SeatsNow(show_seats, payload[p].show_id, contiguous[p].seats)

\* C19: for a call for k >= 1 seats that has its lock, q_check returns
\* exactly k records, one for each (row, seat number) of the candidate block,
\* so len(seats_now) != len(contiguous) is false and the call gets the 409
\* conflict only when one of those records is not available.
C19_ReReadReturnsK ==
    /\ [](\A p \in Requests :
            (pc[p] = "Validating" /\ payload[p].seats_requested >= 1) =>
              /\ Len(contiguous[p].seats) = payload[p].seats_requested
              /\ Cardinality(SeatsNowOf(p)) = payload[p].seats_requested
              /\ { <<x.row_index, x.seat_number>> : x \in SeatsNowOf(p) }
                   = SeqToSet(contiguous[p].seats)
              /\ ~ SeatsMissing(SeatsNowOf(p), contiguous[p].seats))
    /\ [][ \A p \in Requests :
             (pc[p] = "Validating" /\ pc'[p] = "Conflict" /\ payload[p].seats_requested >= 1)
               => \E x \in SeatsNowOf(p) : x.status # "available" ]_vars

\* A call for 3 seats of the two-row show holds its lock, and the re-read
\* gives it its 3 records, one of them booked since the search.
C19_Witness ==
    \E p \in Requests :
      /\ pc[p] = "Validating"
      /\ payload[p] = [show_id |-> 1, seats_requested |-> 3]
      /\ Cardinality(SeatsNowOf(p)) = 3
      /\ \E x \in SeatsNowOf(p) : x.status = "booked"
      /\ \E x \in SeatsNowOf(p) : x.status = "available"

====
